---- MODULE Spec2Model ----
(***************************************************************************)
(* Model of src/main.py: the /route-from-batch endpoint                    *)
(* (route_from_batch_geocoding), the route builder it calls                *)
(* (create_multi_stop_route) and the SQL pipeline the builder sends to     *)
(* PostGIS/pgRouting (stops, snap, pairs, route_parts, full_route).        *)
(*                                                                         *)
(* Conventions of the model                                                *)
(*  - coordinates are planar integers in the distance unit of ST_DWithin;  *)
(*    x is lng, y is lat.  Road geometries are axis-parallel straight      *)
(*    segments from the source vertex to the target vertex.                *)
(*  - squared distances stand for distances (same order).                  *)
(*  - SQL text values are sequences of one-character strings, so that      *)
(*    TRIM and UPPER are computed; a nullable value is [isnull, text].     *)
(*  - SQL truth values are "T", "F" and "U" (unknown/NULL).                *)
(*  - costs handed to pgr_astar are kept in hundredths, so that the        *)
(*    factors 0.6, 0.75, 0.85 are the integers 60, 75, 85 and -1 is -100.  *)
(***************************************************************************)
EXTENDS Integers, Sequences, FiniteSets, TLC

VARIABLES
    ways,              \* table ways: gid -> row (read-only road graph)
    pc,                \* "idle" | "received" | "responded"
    geocode_results,   \* request.geocode_results
    successful_stops,  \* create_multi_stop_route: filtered and sorted stops
    called,            \* create_multi_stop_route was entered
    conn_opened,       \* get_connection() returned a connection
    raised,            \* "none" or the exception caught at main.py:290
    edges_sql,         \* rows of the inner SQL given to pgr_astar
    snap,              \* CTE snap: vertex_id by stop id
    pairs,             \* CTE pairs
    route_parts,       \* CTE route_parts
    route_result,      \* dict returned by create_multi_stop_route
    http_status,       \* status of the HTTP response
    http_detail        \* detail of the HTTPException ("" on 200)

vars == <<ways, pc, geocode_results, successful_stops, called, conn_opened,
          raised, edges_sql, snap, pairs, route_parts, route_result,
          http_status, http_detail>>

----------------------------------------------------------------------------
(* Bounds of the model *)

\* longest request whose stops are enumerated freely
MaxLen == 3

----------------------------------------------------------------------------
(* Program constants *)

MinStops == 2
MaxStops == 100
SearchRadius == 150

----------------------------------------------------------------------------
(* SQL values *)

SqlNull == [isnull |-> TRUE, text |-> <<>>]
SqlText(t) == [isnull |-> FALSE, text |-> t]

YES == <<"Y", "E", "S">>
NO == <<"N", "O">>
UNKNOWN == <<"U", "N", "K", "N", "O", "W", "N">>
REVERSED == <<"R", "E", "V", "E", "R", "S", "E", "D">>

UpperChar(c) ==
    CASE c = "y" -> "Y" [] c = "e" -> "E" [] c = "s" -> "S" [] c = "n" -> "N"
      [] c = "o" -> "O" [] c = "r" -> "R" [] c = "v" -> "V" [] c = "d" -> "D"
      [] c = "u" -> "U" [] c = "k" -> "K" [] c = "w" -> "W"
      [] OTHER -> c

Upper(t) == [i \in 1..Len(t) |-> UpperChar(t[i])]

RECURSIVE LTrim(_)
LTrim(t) == IF t # <<>> /\ Head(t) = " " THEN LTrim(Tail(t)) ELSE t

RECURSIVE RTrim(_)
RTrim(t) ==
    IF t # <<>> /\ t[Len(t)] = " " THEN RTrim(SubSeq(t, 1, Len(t) - 1)) ELSE t

Trim(t) == RTrim(LTrim(t))

\* UPPER(TRIM(v)); NULL stays NULL
UpperTrim(v) == IF v.isnull THEN v ELSE SqlText(Upper(Trim(v.text)))

\* v = 'literal' in SQL: unknown when v is NULL
SqlEq(v, lit) == IF v.isnull THEN "U" ELSE IF v.text = lit THEN "T" ELSE "F"

SqlNot(a) == CASE a = "T" -> "F" [] a = "F" -> "T" [] OTHER -> "U"

SqlAnd(a, b) ==
    IF a = "F" \/ b = "F" THEN "F" ELSE IF a = "T" /\ b = "T" THEN "T" ELSE "U"

SqlOr(a, b) ==
    IF a = "T" \/ b = "T" THEN "T" ELSE IF a = "F" /\ b = "F" THEN "F" ELSE "U"

SqlBool(b) == IF b THEN "T" ELSE "F"

----------------------------------------------------------------------------
(* The road graph: ways_vertices_pgr and ways *)

VertexIds == 1..5

\* ways_vertices_pgr.the_geom
VertexGeom ==
    [v \in VertexIds |->
        CASE v = 1 -> [x |-> 0, y |-> 0]
          [] v = 2 -> [x |-> 400, y |-> 0]
          [] v = 3 -> [x |-> 400, y |-> 300]
          [] v = 4 -> [x |-> 200, y |-> 300]
          [] v = 5 -> [x |-> 200, y |-> 100]]

EdgeIds == 1..4

\* an ordinary two-way residential road
BaseRow(gid) ==
    [source |-> gid, target |-> gid + 1, oneway |-> SqlText(NO),
     tag_id |-> 110, priority |-> 0, maxspeed_forward |-> 50,
     cost_time |-> 2, reverse_cost_time |-> 2]

\* attribute profiles one road of the graph may carry instead
Profiles ==
    { [oneway |-> SqlText(YES), tag_id |-> 110, priority |-> 0,
       maxspeed_forward |-> 50, cost_time |-> 2, reverse_cost_time |-> 2],
      [oneway |-> SqlText(<<" ", "y", "e", "s">>), tag_id |-> 101,
       priority |-> 1, maxspeed_forward |-> 100, cost_time |-> 1,
       reverse_cost_time |-> 1],
      [oneway |-> SqlText(REVERSED), tag_id |-> 110, priority |-> 0,
       maxspeed_forward |-> 50, cost_time |-> 2, reverse_cost_time |-> 2],
      [oneway |-> SqlNull, tag_id |-> 101, priority |-> 0,
       maxspeed_forward |-> 50, cost_time |-> 5, reverse_cost_time |-> 5],
      [oneway |-> SqlText(<<>>), tag_id |-> 110, priority |-> 1,
       maxspeed_forward |-> 90, cost_time |-> 4, reverse_cost_time |-> 4],
      [oneway |-> SqlText(UNKNOWN), tag_id |-> 110, priority |-> 0,
       maxspeed_forward |-> 90, cost_time |-> 4, reverse_cost_time |-> 4],
      [oneway |-> SqlText(NO), tag_id |-> 110, priority |-> 1,
       maxspeed_forward |-> 80, cost_time |-> 3, reverse_cost_time |-> 1] }

WithProfile(gid, p) ==
    [source |-> gid, target |-> gid + 1, oneway |-> p.oneway,
     tag_id |-> p.tag_id, priority |-> p.priority,
     maxspeed_forward |-> p.maxspeed_forward, cost_time |-> p.cost_time,
     reverse_cost_time |-> p.reverse_cost_time]

\* the contents the table ways may have
WaysTables ==
    { [gid \in EdgeIds |-> BaseRow(gid)] } \cup
    { [gid \in EdgeIds |-> IF gid = g THEN WithProfile(gid, p) ELSE BaseRow(gid)] :
        g \in EdgeIds, p \in Profiles }

StartPoint(row) == VertexGeom[row.source]
EndPoint(row) == VertexGeom[row.target]

----------------------------------------------------------------------------
(* Geometry *)

Min(a, b) == IF a < b THEN a ELSE b
Max(a, b) == IF a < b THEN b ELSE a
Clamp(v, lo, hi) == IF v < lo THEN lo ELSE IF v > hi THEN hi ELSE v

\* ST_Distance between two points (squared)
PointDistance(p, q) == (p.x - q.x) * (p.x - q.x) + (p.y - q.y) * (p.y - q.y)

\* the point of an axis-parallel segment closest to p
ClosestPoint(row, p) ==
    LET a == StartPoint(row)
        b == EndPoint(row)
    IN  [x |-> Clamp(p.x, Min(a.x, b.x), Max(a.x, b.x)),
         y |-> Clamp(p.y, Min(a.y, b.y), Max(a.y, b.y))]

\* ST_Distance(w.the_geom, s.geom) (squared)
EdgeDistance(row, p) == PointDistance(ClosestPoint(row, p), p)

\* ST_DWithin(w.the_geom, s.geom, 150)
DWithin(row, p) == EdgeDistance(row, p) <= SearchRadius * SearchRadius

\* ABS(normalised(ST_Azimuth(start, end) - ST_Azimuth(s, s2))) < pi()/2:
\* the angle between the two directions is below 90 degrees, that is their
\* dot product is positive; a NULL azimuth (coincident points) gives a zero
\* vector, for which the comparison is not true.
AzimuthAligned(row, s, s2) ==
    LET a == StartPoint(row)
        b == EndPoint(row)
    IN  (b.x - a.x) * (s2.x - s.x) + (b.y - a.y) * (s2.y - s.y) > 0

----------------------------------------------------------------------------
(* Python side of create_multi_stop_route *)

\* stop.get(key, default) on a dict whose absent keys are stop.missing
Get(stop, key, default) == IF key \in stop.missing THEN default ELSE stop[key]

\* [stop for stop in geocode_results if stop.get("status") == "success"]
FilterSuccessful(results) ==
    SelectSeq(results, LAMBDA stop : Get(stop, "status", "None") = "success")

SortKey(stop) == Get(stop, "stop_number", 0)

\* the place the i-th element takes in the sorted list, from the keys of the
\* list: behind the elements of smaller key and behind the earlier elements
\* of equal key (the sort is stable)
SortedPlace(key, i) ==
    1 + Cardinality({ j \in DOMAIN key :
                        key[j] < key[i] \/ (key[j] = key[i] /\ j < i) })

\* the list left in the order of the request
Unsorted(list) == list

\* list.sort(key=lambda x: x.get("stop_number", 0))
SortByStopNumber(list) ==
    LET n == Len(list)
        key == SubSeq([i \in 1..n |-> SortKey(list[i])], 1, n)
        place == SubSeq([i \in 1..n |-> SortedPlace(key, i)], 1, n)
    IN  SubSeq([p \in 1..n |-> list[CHOOSE i \in 1..n : place[i] = p]], 1, n)

\* the f-string of the stops CTE reads stop['lng'] and stop['lat']
StopsCteRaises(stops) ==
    \E i \in 1..Len(stops) : {"lng", "lat"} \cap stops[i].missing # {}

\* CTE stops: id i carries ST_Point(lng, lat) of the i-th successful stop
StopsCte(stops) == [i \in 1..Len(stops) |-> [x |-> stops[i].lng, y |-> stops[i].lat]]

\* stop_details of the successful response
StopDetails(stops) ==
    [i \in 1..Len(stops) |->
        [stop_number |-> Get(stops[i], "stop_number", 0),
         address |-> Get(stops[i], "address", ""),
         lat |-> Get(stops[i], "lat", "None"),
         lng |-> Get(stops[i], "lng", "None"),
         formatted_address |-> Get(stops[i], "formatted_address", "")]]

----------------------------------------------------------------------------
(* CTE snap *)

\* the source also when both ends are equally close
CloserVertexOnTie(row, p) ==
    IF PointDistance(StartPoint(row), p) <= PointDistance(EndPoint(row), p)
    THEN row.source ELSE row.target

\* the closer end of the road: source only when strictly closer
CloserVertex(row, p) ==
    IF PointDistance(StartPoint(row), p) < PointDistance(EndPoint(row), p)
    THEN row.source ELSE row.target

\* the CASE of the snap subquery, for stop id of cte and road row
SnapVertex(cte, id, row) ==
    IF id = 1 THEN CloserVertex(row, cte[id])
    ELSE IF id = Len(cte) THEN CloserVertex(row, cte[id])
    ELSE IF id + 1 \in DOMAIN cte
         THEN IF AzimuthAligned(row, cte[id], cte[id + 1])
              THEN row.target ELSE row.source
         ELSE CloserVertex(row, cte[id])

\* the one-way filter of the snap subquery's WHERE clause
OnewayFilter(cte, id, row) ==
    LET ut == UpperTrim(row.oneway)
        yes == SqlAnd(SqlEq(ut, YES),
                 SqlAnd(SqlBool(id < Len(cte)),
                        SqlBool(id + 1 \in DOMAIN cte
                                /\ AzimuthAligned(row, cte[id], cte[id + 1]))))
    IN  SqlOr(SqlBool(id = 1),
         SqlOr(SqlBool(row.oneway.isnull),
          SqlOr(SqlEq(row.oneway, <<>>),
           SqlOr(SqlEq(ut, NO),
            SqlOr(SqlEq(ut, UNKNOWN), yes)))))

\* rows of ways that pass the WHERE clause for stop id
SnapCandidates(w, cte, id) ==
    { gid \in DOMAIN w :
        DWithin(w[gid], cte[id]) /\ OnewayFilter(cte, id, w[gid]) = "T" }

\* ORDER BY ST_Distance(...) LIMIT 1: any row of least distance
NearestCandidates(w, cte, id) ==
    LET c == SnapCandidates(w, cte, id)
    IN  { gid \in c :
            \A other \in c :
                EdgeDistance(w[gid], cte[id]) <= EdgeDistance(w[other], cte[id]) }

\* the fallback subquery: ORDER BY v.the_geom <-> s.geom LIMIT 1
NearestVertices(p) ==
    { v \in VertexIds :
        \A u \in VertexIds :
            PointDistance(VertexGeom[v], p) <= PointDistance(VertexGeom[u], p) }

\* the values COALESCE(...) AS vertex_id may take for stop id
SnapChoices(w, cte, id) ==
    IF SnapCandidates(w, cte, id) # {}
    THEN { SnapVertex(cte, id, w[gid]) : gid \in NearestCandidates(w, cte, id) }
    ELSE NearestVertices(cte[id])

\* the values the snap CTE may have for the stops lo..hi, in order
RECURSIVE SnapRange(_, _, _, _)
SnapRange(w, cte, lo, hi) ==
    IF lo > hi THEN { <<>> }
    ELSE IF lo = hi THEN { <<v>> : v \in SnapChoices(w, cte, lo) }
    ELSE LET mid == (lo + hi) \div 2
         IN  { a \o b : a \in SnapRange(w, cte, lo, mid),
                        b \in SnapRange(w, cte, mid + 1, hi) }

\* the results the snap CTE may have: one vertex_id for every stop
SnapResults(w, cte) == SnapRange(w, cte, 1, Len(cte))

----------------------------------------------------------------------------
(* CTE pairs *)

\* snap a JOIN snap b ON b.id = a.id + 1 WHERE a.vertex_id != b.vertex_id
\* (vertex_id is never NULL: ways_vertices_pgr has rows)
Pairs(sn) ==
    SelectSeq([k \in 1..(Len(sn) - 1) |->
                  [from_id |-> k, source |-> sn[k],
                   to_id |-> k + 1, target |-> sn[k + 1]]],
              LAMBDA p : p.source # p.target)

----------------------------------------------------------------------------
(* The edge SQL handed to pgr_astar *)

HighwayTags == {101, 102, 103, 104, 106}

\* tag_id IN (...) OR (priority >= 1.0 AND maxspeed_forward > 80)
HighwayClass(row) ==
    SqlOr(SqlBool(row.tag_id \in HighwayTags),
          SqlAnd(SqlBool(row.priority >= 1), SqlBool(row.maxspeed_forward > 80)))

\* CASE ... END AS cost
Cost(row) ==
    IF SqlEq(UpperTrim(row.oneway), REVERSED) = "T" THEN row.cost_time * 10000 * 100
    ELSE IF HighwayClass(row) = "T" THEN row.cost_time * 60
    ELSE IF row.maxspeed_forward > 80 THEN row.cost_time * 75
    ELSE IF row.priority >= 1 THEN row.cost_time * 85
    ELSE row.cost_time * 100

\* CASE ... END AS reverse_cost
ReverseCost(row) ==
    LET ut == UpperTrim(row.oneway)
        notyes == SqlNot(SqlEq(ut, YES))
    IN  IF SqlEq(ut, YES) = "T" THEN -100
        ELSE IF SqlEq(ut, REVERSED) = "T" THEN -100
        ELSE IF SqlAnd(notyes, HighwayClass(row)) = "T"
             THEN row.reverse_cost_time * 60
        ELSE IF SqlAnd(notyes, SqlBool(row.maxspeed_forward > 80)) = "T"
             THEN row.reverse_cost_time * 75
        ELSE IF SqlAnd(notyes, SqlBool(row.priority >= 1)) = "T"
             THEN row.reverse_cost_time * 85
        ELSE row.reverse_cost_time * 100

\* SELECT gid AS id, source, target, cost, reverse_cost FROM ways
EdgesSql(w) ==
    [gid \in DOMAIN w |->
        [id |-> gid, source |-> w[gid].source, target |-> w[gid].target,
         cost |-> Cost(w[gid]), reverse_cost |-> ReverseCost(w[gid])]]

----------------------------------------------------------------------------
(* pgr_astar(edges, source, target, directed := true) *)

\* the directed arcs of the graph: a negative cost removes the direction
Arcs(es) ==
    { [edge |-> g, from |-> es[g].source, to |-> es[g].target,
       cost |-> es[g].cost, dir |-> "forward"] :
        g \in { h \in DOMAIN es : es[h].cost >= 0 } } \cup
    { [edge |-> g, from |-> es[g].target, to |-> es[g].source,
       cost |-> es[g].reverse_cost, dir |-> "reverse"] :
        g \in { h \in DOMAIN es : es[h].reverse_cost >= 0 } }

RECURSIVE SimplePaths(_, _, _, _)
SimplePaths(arcs, a, b, visited) ==
    IF a = b THEN { <<>> }
    ELSE UNION { { <<arc>> \o p : p \in SimplePaths(arcs, arc.to, b, visited \cup {arc.to}) } :
                 arc \in { x \in arcs : x.from = a /\ x.to \notin visited } }

RECURSIVE PathCost(_)
PathCost(path) == IF path = <<>> THEN 0 ELSE Head(path).cost + PathCost(Tail(path))

\* the paths pgr_astar may return: the cheapest ones; none when unreachable
AstarPaths(es, a, b) ==
    LET all == SimplePaths(Arcs(es), a, b, {a})
    IN  { p \in all : \A q \in all : PathCost(p) <= PathCost(q) }

----------------------------------------------------------------------------
(* CTEs route_parts and full_route *)

\* the rows of one pair: r.edge > 0 keeps one row per traversed edge; dir tells
\* which way r.node enters the edge
PartRows(w, pair, path) ==
    [k \in 1..Len(path) |->
        [from_id |-> pair.from_id, to_id |-> pair.to_id, seq |-> k,
         edge |-> path[k].edge, dir |-> path[k].dir,
         cost_time |-> w[path[k].edge].cost_time]]

\* the rows the pairs lo..hi may contribute, ordered by from_id, seq
RECURSIVE RoutePartsRange(_, _, _, _, _)
RoutePartsRange(w, es, prs, lo, hi) ==
    IF lo > hi THEN { <<>> }
    ELSE IF lo = hi
    THEN LET paths == AstarPaths(es, prs[lo].source, prs[lo].target)
         IN  IF paths = {} THEN { <<>> }
             ELSE { PartRows(w, prs[lo], path) : path \in paths }
    ELSE LET mid == (lo + hi) \div 2
         IN  { a \o b : a \in RoutePartsRange(w, es, prs, lo, mid),
                        b \in RoutePartsRange(w, es, prs, mid + 1, hi) }

\* pairs p CROSS JOIN LATERAL pgr_astar(...): a pair without path adds no row
RoutePartsResults(w, es, prs) == RoutePartsRange(w, es, prs, 1, Len(prs))

\* SUM(cost_time) over rows lo..hi
RECURSIVE SumCostTime(_, _, _)
SumCostTime(rows, lo, hi) ==
    IF lo > hi THEN 0
    ELSE IF lo = hi THEN rows[lo].cost_time
    ELSE SumCostTime(rows, lo, (lo + hi) \div 2)
         + SumCostTime(rows, (lo + hi) \div 2 + 1, hi)

\* COUNT(*): one per traversed edge
SegmentCountOfEdges(rows) == Len(rows)

\* COUNT(DISTINCT from_id)
SegmentCount(rows) == Cardinality({ rows[k].from_id : k \in 1..Len(rows) })

\* the single row of the final SELECT: the aggregates over no rows are NULL
FullRoute(rows) ==
    IF rows = <<>>
    THEN [route_geojson |-> [isnull |-> TRUE, lines |-> <<>>],
          total_time_min |-> [isnull |-> TRUE, value |-> 0],
          segment_count |-> 0]
    ELSE [route_geojson |-> [isnull |-> FALSE,
                             lines |-> [k \in 1..Len(rows) |-> rows[k].edge]],
          total_time_min |-> [isnull |-> FALSE, value |-> SumCostTime(rows, 1, Len(rows))],
          segment_count |-> SegmentCount(rows)]

----------------------------------------------------------------------------
(* create_multi_stop_route *)

\* the dict returned on a failure
Failure(error) ==
    [success |-> FALSE, error |-> error, total_stops |-> 0,
     route_geojson |-> <<>>, stops |-> <<>>,
     total_time_min |-> [isnull |-> TRUE, value |-> 0], segment_count |-> 0]

\* if result and result[0]: ... else "No route found"
RouteResult(stops, result) ==
    IF ~result.route_geojson.isnull
    THEN [success |-> TRUE, error |-> "",
          total_stops |-> Len(stops),
          route_geojson |-> result.route_geojson.lines,
          stops |-> StopDetails(stops),
          total_time_min |-> result.total_time_min,
          segment_count |-> result.segment_count]
    ELSE Failure("No route found")

\* an outcome of the function that ends before the query is run
Early(stops, exception, result) ==
    [successful_stops |-> stops, conn_opened |-> FALSE, raised |-> exception,
     edges_sql |-> <<>>, snap |-> <<>>, pairs |-> <<>>, route_parts |-> <<>>,
     route_result |-> result]

\* cur.execute(query) returned: the CTEs were evaluated
Queried(w, stops, sn, rows) ==
    [successful_stops |-> stops, conn_opened |-> TRUE, raised |-> "none",
     edges_sql |-> EdgesSql(w), snap |-> sn, pairs |-> Pairs(sn),
     route_parts |-> rows, route_result |-> RouteResult(stops, FullRoute(rows))]

\* get_connection() or cur.execute() raised: except Exception returns str(e)
EngineErrors(stops) ==
    { Early(stops, "OperationalError", Failure("OperationalError")),
      [Early(stops, "DatabaseError", Failure("DatabaseError"))
          EXCEPT !.conn_opened = TRUE] }

\* every return value the function may produce for the request on table w
create_multi_stop_route(results, w) ==
    LET stops == SortByStopNumber(FilterSuccessful(results))
    IN  IF Len(stops) < MinStops
        THEN { Early(stops, "none",
                     Failure("At least 2 successful geocodes required for routing")) }
        ELSE IF Len(stops) > MaxStops
        THEN { Early(stops, "none", Failure("Maximum 100 stops allowed")) }
        ELSE IF StopsCteRaises(stops)
        THEN { Early(stops, "KeyError", Failure("KeyError")) }
        ELSE EngineErrors(stops) \cup
             UNION { { Queried(w, stops, sn, rows) :
                         rows \in RoutePartsResults(w, EdgesSql(w), Pairs(sn)) } :
                     sn \in SnapResults(w, StopsCte(stops)) }

----------------------------------------------------------------------------
(* route_from_batch_geocoding *)

\* raise HTTPException(status_code=400, ...) before the route is built
Rejected(detail) ==
    [called |-> FALSE, created |-> Early(<<>>, "none", Failure("")),
     http_status |-> 400, http_detail |-> detail]

\* the response for a return value of create_multi_stop_route.  Nothing in
\* the handler's try block raises once that function has returned a dict, so
\* the except Exception branch (status 500) answers no request.
Answered(created) ==
    [called |-> TRUE, created |-> created,
     http_status |-> IF created.route_result.success THEN 200 ELSE 400,
     http_detail |-> created.route_result.error]

\* every response the endpoint may give to the request on table w
route_from_batch_geocoding(results, w) ==
    IF Len(results) < MinStops
    THEN { Rejected("At least 2 stops required for routing") }
    ELSE IF Len(results) > MaxStops
    THEN { Rejected("Maximum 100 stops allowed") }
    ELSE { Answered(created) : created \in create_multi_stop_route(results, w) }

----------------------------------------------------------------------------
(* Requests *)

Stop(number, x, y, status, address, missing) ==
    [stop_number |-> number, lat |-> y, lng |-> x, status |-> status,
     address |-> address, formatted_address |-> address, missing |-> missing]

\* the stops a short request is made of
StopPool ==
    { Stop(1, 200, 40, "success", "a", {}),
      Stop(2, -10, 0, "success", "b", {}),
      Stop(2, 390, 290, "success", "c", {}),
      Stop(3, 1000, 1000, "success", "d", {}),
      Stop(1, 200, 40, "failed", "e", {}),
      Stop(3, 0, 0, "success", "f", {"lat"}) }

FailedStop == Stop(1, 200, 40, "failed", "e", {})

Repeat(stop, k) == [i \in 1..k |-> stop]

\* k successful stops numbered 1..k, alternating between two places
Successful(k) ==
    [i \in 1..k |->
        IF i % 2 = 1 THEN Stop(i, 200, 40, "success", "a", {})
                     ELSE Stop(i, 1000, 1000, "success", "d", {})]

\* requests at the limit of 100 stops
LongRequests ==
    { Successful(2) \o Repeat(FailedStop, MaxStops - 2),
      Successful(2) \o Repeat(FailedStop, MaxStops - 1),
      Successful(1) \o Repeat(FailedStop, MaxStops),
      Successful(MaxStops),
      Successful(MaxStops + 1) }

Requests ==
    UNION { [1..n -> StopPool] : n \in 0..MaxLen } \cup LongRequests

----------------------------------------------------------------------------
(* The state machine *)

Init ==
    /\ ways \in WaysTables
    /\ pc = "idle"
    /\ geocode_results = <<>>
    /\ successful_stops = <<>>
    /\ called = FALSE
    /\ conn_opened = FALSE
    /\ raised = "none"
    /\ edges_sql = <<>>
    /\ snap = <<>>
    /\ pairs = <<>>
    /\ route_parts = <<>>
    /\ route_result = Failure("")
    /\ http_status = 0
    /\ http_detail = ""

\* a POST /route-from-batch arrives
Receive(results) ==
    /\ pc = "idle"
    /\ pc' = "received"
    /\ geocode_results' = results
    /\ successful_stops' = <<>>
    /\ called' = FALSE
    /\ conn_opened' = FALSE
    /\ raised' = "none"
    /\ edges_sql' = <<>>
    /\ snap' = <<>>
    /\ pairs' = <<>>
    /\ route_parts' = <<>>
    /\ route_result' = Failure("")
    /\ http_status' = 0
    /\ http_detail' = ""
    /\ UNCHANGED ways

\* the handler runs to its response
Handle ==
    /\ pc = "received"
    /\ \E r \in route_from_batch_geocoding(geocode_results, ways) :
        /\ called' = r.called
        /\ successful_stops' = r.created.successful_stops
        /\ conn_opened' = r.created.conn_opened
        /\ raised' = r.created.raised
        /\ edges_sql' = r.created.edges_sql
        /\ snap' = r.created.snap
        /\ pairs' = r.created.pairs
        /\ route_parts' = r.created.route_parts
        /\ route_result' = r.created.route_result
        /\ http_status' = r.http_status
        /\ http_detail' = r.http_detail
    /\ pc' = "responded"
    /\ UNCHANGED <<ways, geocode_results>>

Next == (\E results \in Requests : Receive(results)) \/ Handle

Spec == Init /\ [][Next]_vars

TypeOK == pc \in {"idle", "received", "responded"}

----------------------------------------------------------------------------
(* Vocabulary of the properties *)

Responded == pc = "responded"

\* the query ran to its end
QueryRan == Responded /\ conn_opened /\ raised = "none"

NumSuccessful ==
    Cardinality({ i \in DOMAIN geocode_results :
                    geocode_results[i].status = "success" })

TooFewDetails ==
    { "At least 2 stops required for routing",
      "At least 2 successful geocodes required for routing" }

TooManyDetail == "Maximum 100 stops allowed"

ErrorKind(detail) ==
    IF detail \in TooFewDetails THEN "too few"
    ELSE IF detail = TooManyDetail THEN "too many" ELSE detail

NoGraphWork == ~conn_opened /\ snap = <<>> /\ pairs = <<>> /\ route_parts = <<>>

\* the road is marked as open in both directions
Bidirectional(oneway) ==
    \/ oneway.isnull
    \/ oneway.text = <<>>
    \/ Upper(Trim(oneway.text)) \in {NO, UNKNOWN}

Marked(oneway, mark) == ~oneway.isnull /\ Upper(Trim(oneway.text)) = mark

\* the consecutive snapped stops k, k+1 have a path between distinct vertices
PairResolves(k) ==
    /\ snap[k] # snap[k + 1]
    /\ AstarPaths(edges_sql, snap[k], snap[k + 1]) # {}

AllPairsResolve == \A k \in 1..(Len(snap) - 1) : PairResolves(k)

----------------------------------------------------------------------------
(* C1 *)

\* C1: a request with fewer than 2 successful stops fails with the too-few
\* validation error and one with more than 100 with the too-many validation
\* error, in both cases before any graph work, whatever the number of
\* non-successful stops.
C1_CountValidation ==
    Responded =>
        /\ NumSuccessful < MinStops =>
              /\ http_status = 400
              /\ http_detail \in TooFewDetails
              /\ NoGraphWork
        /\ NumSuccessful > MaxStops =>
              /\ http_status = 400
              /\ http_detail = TooManyDetail
              /\ NoGraphWork

----------------------------------------------------------------------------
(* C2 *)

\* C2: if any consecutive pair of snapped stops is unsolvable (same vertex or
\* no path) the whole request fails; success is never answered from a subset
\* of the pairs.
C2_NoPartialRoute ==
    (QueryRan /\ ~AllPairsResolve) => ~route_result.success

----------------------------------------------------------------------------
(* C3 *)

\* the request without its non-success stops
OnlySuccessful ==
    SelectSeq(geocode_results, LAMBDA stop : stop.status = "success")

\* response r has the outcome of the response in the state
SameOutcome(r) ==
    /\ r.http_status = http_status
    /\ ErrorKind(r.http_detail) = ErrorKind(http_detail)
    /\ r.created.snap = snap
    /\ r.created.route_result.success = route_result.success
    /\ r.created.route_result.route_geojson = route_result.route_geojson
    /\ r.created.route_result.total_stops = route_result.total_stops
    /\ r.created.route_result.stops = route_result.stops

\* C3: non-success stops have no influence: the request stripped of them has
\* the same outcome (decision, error, snapped sequence, route, total_stops),
\* and no non-success stop appears in the stops summary of a success.
C3_NonSuccessIgnored ==
    Responded =>
        /\ \E r \in route_from_batch_geocoding(OnlySuccessful, ways) : SameOutcome(r)
        /\ route_result.success =>
              \A i \in DOMAIN route_result.stops :
                  \E j \in DOMAIN geocode_results :
                      /\ geocode_results[j].status = "success"
                      /\ geocode_results[j].address = route_result.stops[i].address

----------------------------------------------------------------------------
(* C4 *)

\* C4: a road marked oneway = YES has a negative (unreachable) reverse cost, a
\* road marked oneway = REVERSED has a negative (unreachable) forward cost,
\* and no solved path traverses a one-way road against its marking.
C4_OnewayUnreachable ==
    QueryRan =>
        /\ \A g \in DOMAIN edges_sql :
              /\ Marked(ways[g].oneway, YES) => edges_sql[g].reverse_cost < 0
              /\ Marked(ways[g].oneway, REVERSED) => edges_sql[g].cost < 0
        /\ \A k \in DOMAIN route_parts :
              LET row == route_parts[k]
              IN  /\ Marked(ways[row.edge].oneway, YES) => row.dir = "forward"
                  /\ Marked(ways[row.edge].oneway, REVERSED) => row.dir = "reverse"

----------------------------------------------------------------------------
(* C5 *)

\* C5: when every consecutive pair of successful stops resolves to a path,
\* the segment_count of the successful response is the number of successful
\* stops minus 1: it counts stop pairs, not edges.
C5_SegmentCount ==
    (QueryRan /\ route_result.success /\ AllPairsResolve) =>
        route_result.segment_count = Len(successful_stops) - 1

\* a route over three stops whose segments have more edges than one each
C5_Witness ==
    /\ QueryRan /\ route_result.success /\ AllPairsResolve
    /\ Len(successful_stops) = 3
    /\ Len(route_parts) > 2

----------------------------------------------------------------------------
(* C6 *)

\* the discount of the claim, in hundredths: first match of highway class,
\* forward speed above 80, priority of at least 1.0
ClaimedTier(row) ==
    IF row.tag_id \in HighwayTags THEN 60
    ELSE IF row.maxspeed_forward > 80 THEN 75
    ELSE IF row.priority >= 1 THEN 85
    ELSE 100

\* C6: in a legal, unpenalized direction the cost is the stored travel time
\* of that direction times one discount chosen by first match (highway class
\* 0.6, else forward speed > 80 0.75, else priority >= 1.0 0.85, else 1.0),
\* the same tier for the forward and the reverse cost of a road.
C6_DiscountTiers ==
    QueryRan =>
        \A g \in DOMAIN edges_sql :
            /\ ~Marked(ways[g].oneway, REVERSED) =>
                  edges_sql[g].cost = ways[g].cost_time * ClaimedTier(ways[g])
            /\ (~Marked(ways[g].oneway, REVERSED) /\ ~Marked(ways[g].oneway, YES)) =>
                  edges_sql[g].reverse_cost
                      = ways[g].reverse_cost_time * ClaimedTier(ways[g])

----------------------------------------------------------------------------
(* C7 *)

\* the cost of the path the solver returns from a to b; -1 without a path
SolverCost(es, a, b) ==
    LET paths == AstarPaths(es, a, b)
    IN  IF paths = {} THEN -1 ELSE PathCost(CHOOSE p \in paths : TRUE)

\* C7: on a graph whose roads are all two-way (oneway NULL, empty, NO or
\* UNKNOWN) with equal forward and reverse base travel time, every road's
\* forward cost equals its reverse cost and cost(A->B) = cost(B->A) for every
\* pair of vertices.
C7_SymmetricCost ==
    (/\ QueryRan
     /\ \A g \in DOMAIN ways :
            /\ Bidirectional(ways[g].oneway)
            /\ ways[g].cost_time = ways[g].reverse_cost_time) =>
        /\ \A g \in DOMAIN edges_sql : edges_sql[g].cost = edges_sql[g].reverse_cost
        /\ \A a, b \in VertexIds :
              SolverCost(edges_sql, a, b) = SolverCost(edges_sql, b, a)

----------------------------------------------------------------------------
(* C8 *)

\* list reordered by the permutation f of its indices
Reordered(list, f) == [i \in DOMAIN list |-> list[f[i]]]

\* the orders in which the request may list the same stops: every order of a
\* short request; the reverse and a rotation of a long one
Reorderings(list) ==
    IF Len(list) <= MaxLen
    THEN { Reordered(list, f) : f \in Permutations(DOMAIN list) }
    ELSE { list,
           [i \in DOMAIN list |-> list[Len(list) + 1 - i]],
           [i \in DOMAIN list |-> list[(i % Len(list)) + 1]] }

\* the successful stops of list, in the order the route builder gives them
Ordered(list) == SortByStopNumber(FilterSuccessful(list))

NonDecreasing(list) ==
    \A i \in 1..(Len(list) - 1) : list[i].stop_number <= list[i + 1].stop_number

DistinctNumbers(list) ==
    \A i, j \in DOMAIN list :
        (i # j /\ list[i].status = "success" /\ list[j].status = "success")
            => list[i].stop_number # list[j].stop_number

\* C8 as stated: the filtered and sorted sequence depends only on the set of
\* stops, not on their order in the request.
C8_OrderIndependent ==
    (Responded /\ called) =>
        \A other \in Reorderings(geocode_results) : Ordered(other) = successful_stops

\* C8 amended: when the successful stops have pairwise distinct stop_number,
\* every reordering of the request gives the same filtered and sorted
\* sequence; in every case that sequence is in non-decreasing stop_number
\* order, is what a successful response lists, and sorting it again changes
\* nothing.
C8_OrderIndependentDistinct ==
    (Responded /\ called) =>
        /\ DistinctNumbers(geocode_results) =>
              \A other \in Reorderings(geocode_results) :
                  Ordered(other) = successful_stops
        /\ NonDecreasing(successful_stops)
        /\ SortByStopNumber(successful_stops) = successful_stops
        /\ route_result.success =>
              /\ Len(route_result.stops) = Len(successful_stops)
              /\ \A i \in DOMAIN successful_stops :
                    /\ route_result.stops[i].stop_number = successful_stops[i].stop_number
                    /\ route_result.stops[i].address = successful_stops[i].address

\* a request that lists three successful stops of distinct numbers out of
\* order was answered with a route
C8_Witness ==
    /\ Responded /\ called /\ route_result.success
    /\ DistinctNumbers(geocode_results)
    /\ Len(successful_stops) = 3
    /\ geocode_results # successful_stops
    /\ \E i \in 1..(Len(geocode_results) - 1) :
          geocode_results[i].stop_number > geocode_results[i + 1].stop_number

----------------------------------------------------------------------------
(* C9 *)

\* C9: a routing failure (validation error, no route found) is answered with
\* HTTP 400 and its reason; an exception raised while the route is created
\* (connection, query, malformed stop) is answered with HTTP 500, never 400.
C9_ErrorMapping ==
    Responded =>
        /\ (raised = "none" /\ ~route_result.success) =>
              (http_status = 400 /\ http_detail # "")
        /\ raised # "none" => http_status = 500

----------------------------------------------------------------------------
(* C10 *)

EndStops == IF snap = <<>> THEN {} ELSE {1, Len(snap)}

StopGeom(id) == [x |-> successful_stops[id].lng, y |-> successful_stops[id].lat]

WithinRadius(p) ==
    { g \in DOMAIN ways : EdgeDistance(ways[g], p) <= SearchRadius * SearchRadius }

\* C10 as stated: the first and the last stop snap to the endpoint nearest to
\* the stop among the endpoints of all roads within the radius, whatever their
\* one-way marking; the nearest vertex is used only without such a road.
C10_NearestEndpoint ==
    QueryRan =>
        \A id \in EndStops :
            LET p == StopGeom(id)
                ends == UNION { {ways[g].source, ways[g].target} : g \in WithinRadius(p) }
            IN  IF ends # {}
                THEN /\ snap[id] \in ends
                     /\ \A v \in ends :
                           PointDistance(VertexGeom[snap[id]], p)
                               <= PointDistance(VertexGeom[v], p)
                ELSE \A v \in VertexIds :
                        PointDistance(VertexGeom[snap[id]], p)
                            <= PointDistance(VertexGeom[v], p)

\* the roads stop id, first or last, may snap to
Eligible(id, p) ==
    IF id = 1 THEN WithinRadius(p)
    ELSE { g \in WithinRadius(p) : Bidirectional(ways[g].oneway) }

\* C10 amended: the first and the last stop snap to an endpoint of the road
\* nearest to the stop among the eligible roads within the radius: its source
\* when the source is strictly nearer to the stop, else its target.  Every
\* road within the radius is eligible for the first stop; for the last stop
\* only roads marked two-way (oneway NULL, empty, NO or UNKNOWN) are.  The
\* nearest vertex is used when no eligible road lies within the radius.
C10_NearestRoadEndpoint ==
    QueryRan =>
        \A id \in EndStops :
            LET p == StopGeom(id)
                el == Eligible(id, p)
            IN  IF el # {}
                THEN \E g \in el :
                        /\ \A h \in el :
                              EdgeDistance(ways[g], p) <= EdgeDistance(ways[h], p)
                        /\ snap[id] =
                              IF PointDistance(VertexGeom[ways[g].source], p)
                                   < PointDistance(VertexGeom[ways[g].target], p)
                              THEN ways[g].source ELSE ways[g].target
                ELSE \A v \in VertexIds :
                        PointDistance(VertexGeom[snap[id]], p)
                            <= PointDistance(VertexGeom[v], p)

\* the last stop was snapped while the road nearest to it is one-way and a
\* two-way road lies farther within the radius; the first stop, at the same
\* place, went to another vertex
C10_Witness ==
    /\ QueryRan
    /\ Len(snap) >= 2
    /\ LET p == StopGeom(Len(snap))
       IN  /\ \E g \in WithinRadius(p) :
                 /\ Marked(ways[g].oneway, YES)
                 /\ \A h \in Eligible(Len(snap), p) :
                       EdgeDistance(ways[g], p) < EdgeDistance(ways[h], p)
           /\ Eligible(Len(snap), p) # {}
           /\ StopGeom(1) = p
    /\ snap[1] # snap[Len(snap)]

====
